---------------------------- MODULE Spec2Model ----------------------------
(***************************************************************************)
(* Model of the paper-search backend: the cross-source deduplication and   *)
(* merge engine (app/utils/deduplication.py), the unified search service   *)
(* with its fan-out over the source adapters (app/services/                *)
(* search_service.py) and the search-result cache (app/utils/cache.py).    *)
(*                                                                         *)
(* Python values are modelled as follows.  A str is a TLA+ string; its     *)
(* characters, needed by lower(), strip(), len() and SequenceMatcher, are  *)
(* given by Chars.  None is the value None.  A paper dict is a record with *)
(* one field per key; the key "sources", which only _merge_papers writes,  *)
(* is the empty sequence while the dict has no such key.                   *)
(***************************************************************************)
EXTENDS Integers, Sequences, FiniteSets, TLC

None == "<None>"

(***************************************************************************)
(* Bounds of the model.                                                    *)
(***************************************************************************)
\* longest input list handed to deduplicate_papers in DedupSpec
MaxPapers == 3
\* largest citation_count of an input record
MaxCitations == 2

(***************************************************************************)
(* Strings and their characters.                                           *)
(***************************************************************************)
Chars(s) ==
    CASE s = ""       -> << >>
      [] s = "abc"    -> <<"a", "b", "c">>
      [] s = "Abcd "  -> <<"A", "b", "c", "d", " ">>
      [] s = "abcde"  -> <<"a", "b", "c", "d", "e">>
      [] s = "d1"     -> <<"d", "1">>
      [] s = " D1"    -> <<" ", "D", "1">>
      [] s = "d2"     -> <<"d", "2">>
      [] s = "a1"     -> <<"a", "1">>
      [] s = "a2"     -> <<"a", "2">>
      [] s = "s1"     -> <<"s", "1">>
      [] s = "o1"     -> <<"o", "1">>
      [] s = "p"      -> <<"p">>
      [] s = "q"      -> <<"q">>
      [] s = "rr"     -> <<"r", "r">>

UpperCase == <<"A", "B", "C", "D">>
LowerCase == <<"a", "b", "c", "d">>

\* str.lower() on one character
LowerChar(c) ==
    IF \E i \in 1..Len(UpperCase) : UpperCase[i] = c
    THEN LowerCase[CHOOSE i \in 1..Len(UpperCase) : UpperCase[i] = c]
    ELSE c

\* str.lower()
Lower(cs) == [i \in 1..Len(cs) |-> LowerChar(cs[i])]

\* str.strip(): leading and trailing whitespace removed
RECURSIVE LStrip(_)
LStrip(cs) == IF cs # << >> /\ Head(cs) = " " THEN LStrip(Tail(cs)) ELSE cs

RECURSIVE RStrip(_)
RStrip(cs) ==
    IF cs # << >> /\ cs[Len(cs)] = " " THEN RStrip(SubSeq(cs, 1, Len(cs) - 1)) ELSE cs

Strip(cs) == RStrip(LStrip(cs))

\* the strings of the model: the domain of Chars
Strings == {"", "abc", "Abcd ", "abcde", "d1", " D1", "d2", "a1", "a2", "s1", "o1",
            "p", "q", "rr"}

\* s.lower().strip(), the key under which an identifier or a title is indexed
NormKey(s) == Strip(Lower(Chars(s)))

\* NormKey tabulated over Strings
NormKeyOf == [s \in Strings |-> NormKey(s)]

Keys == {NormKeyOf[s] : s \in Strings}

\* Python truthiness of an optional string: None and "" are falsy
Truthy(v) == v # None /\ v # ""

(***************************************************************************)
(* difflib.SequenceMatcher(None, a, b).ratio() = 2*M/T, M the total size   *)
(* of the matching blocks: the longest common block (earliest in a, then   *)
(* earliest in b), then the same to its left and to its right.             *)
(***************************************************************************)
\* length of the common run of a from i and b from j, inside [.., ahi] x [.., bhi]
RECURSIVE RunLen(_, _, _, _, _, _)
RunLen(a, b, i, j, ahi, bhi) ==
    IF i <= ahi /\ j <= bhi /\ a[i] = b[j]
    THEN 1 + RunLen(a, b, i + 1, j + 1, ahi, bhi)
    ELSE 0

\* find_longest_match over a[alo..ahi], b[blo..bhi] (1-based, inclusive)
FindLongestMatch(a, b, alo, ahi, blo, bhi) ==
    LET cand == {<<i, j>> \in (alo..ahi) \X (blo..bhi) : TRUE}
        size(p) == RunLen(a, b, p[1], p[2], ahi, bhi)
        best == CHOOSE p \in cand :
                  \A q \in cand :
                     \/ size(p) > size(q)
                     \/ /\ size(p) = size(q)
                        /\ \/ p[1] < q[1]
                           \/ p[1] = q[1] /\ p[2] <= q[2]
    IN  [i |-> best[1], j |-> best[2], k |-> size(best)]

RECURSIVE MatchedSize(_, _, _, _, _, _)
MatchedSize(a, b, alo, ahi, blo, bhi) ==
    IF alo > ahi \/ blo > bhi THEN 0
    ELSE LET m == FindLongestMatch(a, b, alo, ahi, blo, bhi)
         IN  IF m.k = 0 THEN 0
             ELSE m.k + MatchedSize(a, b, alo, m.i - 1, blo, m.j - 1)
                      + MatchedSize(a, b, m.i + m.k, ahi, m.j + m.k, bhi)

\* the threshold 0.85 of deduplicate_papers, in hundredths
SimilarityThresholdPct == 85

\* _title_similarity(title1, title2): the ratio 2*M/T as the fraction num/den
\* (1.0 when both strings are empty)
_title_similarity(title1, title2) ==
    LET T == Len(title1) + Len(title2)
        M == MatchedSize(title1, title2, 1, Len(title1), 1, Len(title2))
    IN  IF T = 0 THEN [num |-> 1, den |-> 1] ELSE [num |-> 2 * M, den |-> T]

\* _title_similarity tabulated over the keys of the model
SimilarityOf == [p \in Keys \X Keys |-> _title_similarity(p[1], p[2])]

(***************************************************************************)
(* Paper dicts.                                                            *)
(***************************************************************************)
IdFields == <<"arxiv_id", "doi", "semantic_scholar_id", "openalex_id">>

\* a faulty priority table that ranks arxiv above semantic_scholar
source_priority_ArxivFirst(source) ==
    CASE source = "arxiv"            -> 3
      [] source = "semantic_scholar" -> 2
      [] source = "openalex"         -> 1
      [] OTHER                       -> 0

\* source_priority.get(source, 0)
source_priority(source) ==
    CASE source = "semantic_scholar" -> 3
      [] source = "arxiv"            -> 2
      [] source = "openalex"         -> 1
      [] OTHER                       -> 0

\* a faulty maximum that keeps its first argument
Max_KeepsFirst(a, b) == a

Max(a, b) == IF a >= b THEN a ELSE b

\* len(paper.get("abstract", "")) raises TypeError when the value is None
AbstractLenRaises(paper) == paper.abstract = None

AbstractLen(paper) == Len(Chars(paper.abstract))

\* _merge_papers raises TypeError at its len() calls when an abstract is None
MergeRaises(paper1, paper2) == AbstractLenRaises(paper1) \/ AbstractLenRaises(paper2)

\* a faulty id loop that never fills a gap
MergeId_NeverFills(merged, secondary, f) == merged[f]

\* a faulty id loop in which the secondary record's value wins
MergeId_SecondaryWins(merged, secondary, f) ==
    IF Truthy(secondary[f]) THEN secondary[f] ELSE merged[f]

\* the id-collecting loop of _merge_papers: a gap of merged is filled from secondary
MergeId(merged, secondary, f) ==
    IF ~Truthy(merged[f]) /\ Truthy(secondary[f]) THEN secondary[f] ELSE merged[f]

\* a faulty abstract rule that never takes the secondary record's abstract
MergeAbstract_KeepsPrimary(primary, secondary) == primary.abstract

\* "Use longest abstract" (lines 118-120), when neither len() raises
MergeAbstract(primary, secondary) ==
    IF AbstractLen(secondary) > AbstractLen(primary)
    THEN secondary.abstract ELSE primary.abstract

\* a faulty pdf_url and venue rule in which the secondary record's value wins
FillGap_SecondaryWins(merged, secondary, f) ==
    IF Truthy(secondary[f]) THEN secondary[f] ELSE merged[f]

\* lines 123-124 and 133-134: pdf_url and venue are taken from secondary only
\* when merged has none
FillGap(merged, secondary, f) ==
    IF ~Truthy(merged[f]) /\ Truthy(secondary[f]) THEN secondary[f] ELSE merged[f]

\* the "sources" list _merge_papers builds
MergeSources(primary, secondary) ==
    IF Truthy(secondary.source) /\ secondary.source # primary.source
    THEN <<primary.source, secondary.source>>
    ELSE <<primary.source>>

\* _merge_papers(paper1, paper2, source_priority), when it does not raise
_merge_papers(paper1, paper2) ==
    LET p1_priority == source_priority(paper1.source)
        p2_priority == source_priority(paper2.source)
        primary   == IF p1_priority >= p2_priority THEN paper1 ELSE paper2
        secondary == IF p1_priority >= p2_priority THEN paper2 ELSE paper1
    IN  [primary EXCEPT
            !.arxiv_id            = MergeId(primary, secondary, "arxiv_id"),
            !.doi                 = MergeId(primary, secondary, "doi"),
            !.semantic_scholar_id = MergeId(primary, secondary, "semantic_scholar_id"),
            !.openalex_id         = MergeId(primary, secondary, "openalex_id"),
            !.abstract            = MergeAbstract(primary, secondary),
            !.pdf_url             = FillGap(primary, secondary, "pdf_url"),
            !.citation_count      = Max(primary.citation_count, secondary.citation_count),
            !.venue               = FillGap(primary, secondary, "venue"),
            !.sources             = MergeSources(primary, secondary)]

(***************************************************************************)
(* The tracking dictionaries of deduplicate_papers.  seen_ids is a dict    *)
(* from normalized identifier to paper: a function on the set of its keys. *)
(* seen_titles is a dict from normalized title to paper that is iterated:  *)
(* a sequence of entries in insertion order (assigning to a key that is    *)
(* present keeps the key's place).                                         *)
(***************************************************************************)
DictSet(d, k, v) == [x \in DOMAIN d \cup {k} |-> IF x = k THEN v ELSE d[x]]

TrackId(seen_ids, paper, f) ==
    IF Truthy(paper[f]) THEN DictSet(seen_ids, NormKeyOf[paper[f]], paper) ELSE seen_ids

OrderedDictSet(d, k, v) ==
    IF \E n \in 1..Len(d) : d[n].key = k
    THEN [n \in 1..Len(d) |-> IF d[n].key = k THEN [key |-> k, val |-> v] ELSE d[n]]
    ELSE Append(d, [key |-> k, val |-> v])

\* _update_tracking(paper, seen_ids, seen_titles): the two dicts after the call
_update_tracking(paper, seen_ids, seen_titles) ==
    LET s1 == TrackId(seen_ids, paper, "doi")
        s2 == TrackId(s1, paper, "arxiv_id")
        s3 == TrackId(s2, paper, "semantic_scholar_id")
        s4 == TrackId(s3, paper, "openalex_id")
        title == NormKeyOf[paper.title]
    IN  [seen_ids    |-> s4,
         seen_titles |-> IF title # << >>
                         THEN OrderedDictSet(seen_titles, title, paper)
                         ELSE seen_titles]

(***************************************************************************)
(* deduplicate_papers.  An optional paper (matching_paper) is a sequence   *)
(* of length 0 or 1.                                                       *)
(***************************************************************************)
\* one "if not matching_paper and paper.get(f): ... seen_ids[key]" block
LookupId(matching_paper, paper, seen_ids, f) ==
    IF matching_paper = << >> /\ Truthy(paper[f]) /\ NormKeyOf[paper[f]] \in DOMAIN seen_ids
    THEN <<seen_ids[NormKeyOf[paper[f]]]>>
    ELSE matching_paper

\* the loop over seen_titles.items(): the first entry that reaches the threshold
LookupTitle(paper, seen_titles) ==
    LET title == NormKeyOf[paper.title]
        hit(n) == LET similarity == SimilarityOf[<<title, seen_titles[n].key>>]
                  IN  similarity.num * 100 >= SimilarityThresholdPct * similarity.den
    IN  IF title # << >> /\ \E n \in 1..Len(seen_titles) : hit(n)
        THEN <<seen_titles[CHOOSE n \in 1..Len(seen_titles) :
                              hit(n) /\ \A m \in 1..(n - 1) : ~hit(m)].val>>
        ELSE << >>

\* matching_paper as it stands at line 70: DOI, arXiv ID, Semantic Scholar ID,
\* OpenAlex ID, then title similarity
MatchingPaper(paper, seen_ids, seen_titles) ==
    LET m1 == LookupId(<< >>, paper, seen_ids, "doi")
        m2 == LookupId(m1, paper, seen_ids, "arxiv_id")
        m3 == LookupId(m2, paper, seen_ids, "semantic_scholar_id")
        m4 == LookupId(m3, paper, seen_ids, "openalex_id")
    IN  IF m4 = << >> THEN LookupTitle(paper, seen_titles) ELSE m4

\* list.index(x): the first position holding a value equal to x, 0 when there is
\* none (Python raises ValueError)
ListIndex(list, x) ==
    IF \E n \in 1..Len(list) : list[n] = x
    THEN CHOOSE n \in 1..Len(list) : list[n] = x /\ \A m \in 1..(n - 1) : list[m] # x
    ELSE 0

\* the state of the loop: the three locals and the exception raised, if any
DedupStart ==
    [deduplicated |-> << >>, seen_ids |-> << >>, seen_titles |-> << >>, raised |-> ""]

\* a faulty replacement that moves the merged record to the end of the list
ReplaceExisting_MovesToEnd(st, merged, idx, tracking) ==
    IF idx = 0
    THEN [st EXCEPT !.raised = "ValueError"]
    ELSE [deduplicated |-> Append(SubSeq(st.deduplicated, 1, idx - 1)
                                    \o SubSeq(st.deduplicated, idx + 1, Len(st.deduplicated)),
                                  merged),
          seen_ids     |-> tracking.seen_ids,
          seen_titles  |-> tracking.seen_titles,
          raised       |-> ""]

\* lines 76-78: the slot of the existing record is replaced by the merged one
\* and tracking is updated; list.index raises ValueError when idx = 0
ReplaceExisting(st, merged, idx, tracking) ==
    IF idx = 0
    THEN [st EXCEPT !.raised = "ValueError"]
    ELSE [deduplicated |-> [st.deduplicated EXCEPT ![idx] = merged],
          seen_ids     |-> tracking.seen_ids,
          seen_titles  |-> tracking.seen_titles,
          raised       |-> ""]

\* a faulty append that drops a record under which nothing is indexed
AddNew_DropsUnindexed(st, paper, tracking) ==
    [deduplicated |-> IF tracking.seen_ids = st.seen_ids /\ tracking.seen_titles = st.seen_titles
                      THEN st.deduplicated ELSE Append(st.deduplicated, paper),
     seen_ids     |-> tracking.seen_ids,
     seen_titles  |-> tracking.seen_titles,
     raised       |-> ""]

\* lines 79-82: the record is new
AddNew(st, paper, tracking) ==
    [deduplicated |-> Append(st.deduplicated, paper),
     seen_ids     |-> tracking.seen_ids,
     seen_titles  |-> tracking.seen_titles,
     raised       |-> ""]

\* lines 70-78: merge with the existing record
MergeWithExisting(st, existing, merged) ==
    ReplaceExisting(st, merged, ListIndex(st.deduplicated, existing),
                    _update_tracking(merged, st.seen_ids, st.seen_titles))

\* lines 70-82, given matching_paper
MergeOrAdd(st, paper, matching_paper) ==
    IF matching_paper # << >>
    THEN IF MergeRaises(matching_paper[1], paper)
         THEN [st EXCEPT !.raised = "TypeError"]
         ELSE MergeWithExisting(st, matching_paper[1],
                                _merge_papers(matching_paper[1], paper))
    ELSE AddNew(st, paper, _update_tracking(paper, st.seen_ids, st.seen_titles))

\* one iteration of "for paper in papers" (lines 32-82)
DedupIteration(st, paper) ==
    CHOOSE r \in {MergeOrAdd(st, paper, matching_paper) :
                     matching_paper \in {MatchingPaper(paper, st.seen_ids, st.seen_titles)}} : TRUE

RECURSIVE DedupLoop(_, _)
DedupLoop(st, papers) ==
    IF papers = << >> \/ st.raised # "" THEN st
    ELSE CHOOSE r \in {DedupLoop(next, Tail(papers)) :
                           next \in {DedupIteration(st, Head(papers))}} : TRUE

\* deduplicate_papers(papers): the list returned, or the exception raised
DedupOutcome(st) ==
    [raised |-> st.raised, papers |-> IF st.raised = "" THEN st.deduplicated ELSE << >>]

deduplicate_papers(papers) == DedupOutcome(DedupLoop(DedupStart, papers))

(***************************************************************************)
(* Input records.  A record has every key of the canonical schema; the     *)
(* inputs of a run are drawn from one of the families below, each varying  *)
(* the fields one part of the algorithm reads.  The authors list of a      *)
(* record, which the algorithm only copies, names the record's source.     *)
(***************************************************************************)
Paper(title, doi, arxiv_id, semantic_scholar_id, openalex_id, source, citation_count, abstract, pdf_url, venue) ==
    [title |-> title, doi |-> doi, arxiv_id |-> arxiv_id,
     semantic_scholar_id |-> semantic_scholar_id, openalex_id |-> openalex_id,
     source |-> source, citation_count |-> citation_count, abstract |-> abstract,
     pdf_url |-> pdf_url, venue |-> venue, publication_date |-> None,
     authors |-> <<source>>, sources |-> << >>]

KnownSources == {"semantic_scholar", "arxiv", "openalex"}

\* identifier combinations <<doi, arxiv_id, semantic_scholar_id, openalex_id>>;
\* the last but one holds in semantic_scholar_id a string that is also an arXiv
\* ID, the last one an empty arXiv ID (a string, but not a value the code uses)
IdCombos ==
    {<<"d1", None, None, None>>, <<" D1", None, None, None>>,
     <<None, "a1", None, None>>, <<None, "a2", None, None>>,
     <<"d1", "a1", None, None>>, <<"d1", "a2", None, None>>,
     <<"d2", "a1", None, None>>, <<"d2", "a2", None, None>>,
     <<None, None, "s1", None>>, <<None, None, None, "o1">>,
     <<None, "a1", "s1", None>>, <<"d1", None, None, "o1">>,
     <<None, None, "a1", None>>, <<"d1", "", None, None>>}

\* every identifier combination, from one source
IdentifierFamily ==
    {Paper("", c[1], c[2], c[3], c[4], "arxiv", 0, "", None, None) : c \in IdCombos}

\* records that share or differ in DOI and arXiv ID, from every source
PriorityFamily ==
    {Paper("", c[1], c[2], None, None, src, 0, "", None, None) :
        c \in {<<"d1", None>>, <<"d1", "a1">>, <<"d2", "a1">>, <<None, "a1">>, <<"d1", "">>},
        src \in KnownSources}

TitleFamily ==
    {Paper(t, d, None, None, None, src, 0, "", None, None) :
        t \in {"", "abc", "Abcd ", "abcde"}, d \in {None, "d1"},
        src \in {"arxiv", "semantic_scholar"}}

\* "crossref" is a source the priority table does not know; its records carry an
\* arXiv ID as well
CitationFamily ==
    {Paper("", d, IF src = "crossref" THEN "a1" ELSE None, None, None, src, c, "", None, None) :
        d \in {"d1", "d2"}, src \in {"semantic_scholar", "crossref"}, c \in 0..MaxCitations}

AbstractFamily ==
    {Paper("", d, None, None, None, src, 0, a, None, None) :
        d \in {"d1", "d2"}, src \in {"arxiv", "semantic_scholar"},
        a \in {None, "", "p", "rr"}}

LinkFamily ==
    {Paper("", "d1", None, None, None, src, 0, "", u, v) :
        src \in {"arxiv", "semantic_scholar"}, u \in {None, "u1", "u2"},
        v \in {None, "v1", "v2"}}

Families ==
    {IdentifierFamily, PriorityFamily, TitleFamily, CitationFamily, AbstractFamily, LinkFamily}

RECURSIVE SeqsUpTo(_, _)
SeqsUpTo(S, n) ==
    IF n = 0 THEN {<< >>}
    ELSE LET shorter == SeqsUpTo(S, n - 1)
         IN  shorter \cup {Append(q, x) : q \in {r \in shorter : Len(r) = n - 1}, x \in S}

(***************************************************************************)
(* UnifiedSearchService and CacheService.                                  *)
(***************************************************************************)
\* a datetime object, as _parse_date returns it
ADate == "datetime(2017, 6, 12)"

WithDate(paper) == [paper EXCEPT !.publication_date = ADate]

\* self.sources of UnifiedSearchService.__init__: the source_name of each adapter
AllSources == <<"arxiv", "semantic_scholar", "openalex">>

\* _get_active_sources(source_names): the adapters, by source_name; source_names
\* is a list of names, the empty list standing for None as well ("not source_names")
_get_active_sources(source_names) ==
    IF source_names = << >>
    THEN AllSources
    ELSE SelectSeq(source_names, LAMBDA name : name \in KnownSources)

\* the floor of the per-source cap in _parallel_search
PerSourceFloor == 20

\* per_source_limit of _parallel_search, for a non-empty list of sources
per_source_limit(limit, sources) == Max(PerSourceFloor, limit \div Len(sources))

\* What an adapter's search can hand to gather: a list of papers (the empty list
\* after a failure the adapter caught) or an exception.  A result is
\* [kind |-> "list", papers |-> ...] or [kind |-> "exception", papers |-> << >>].
ListResult(ps) == [kind |-> "list", papers |-> ps]
ExceptionResult == [kind |-> "exception", papers |-> << >>]

ArxivA == WithDate(Paper("abc", "d1", "a1", None, None, "arxiv", 0, "p", "u1", None))
ArxivB == Paper("abc", None, "a1", None, None, "arxiv", 0, "p", "u1", None)
ArxivC == Paper("", None, "a2", None, None, "arxiv", 0, "", None, None)
ScholarA == Paper("Abcd ", "d2", "a1", "s1", None, "semantic_scholar", 2, "rr", None, "v1")
ScholarB == Paper("abcde", None, None, "s1", None, "semantic_scholar", 1, "q", None, None)
ScholarC == Paper("", None, "a2", "s1", None, "semantic_scholar", 1, None, None, None)
OpenAlexA == Paper("", "d1", None, None, "o1", "openalex", 1, "", None, "v2")

\* the results each adapter can produce for a query
AdapterResults(source) ==
    CASE source = "arxiv" ->
           {ListResult(<<ArxivA>>), ListResult(<<ArxivB, ArxivC>>), ListResult(<< >>)}
      [] source = "semantic_scholar" ->
           {ListResult(<<ScholarA>>), ListResult(<<ScholarB, ScholarC>>), ExceptionResult}
      [] source = "openalex" ->
           {ListResult(<<OpenAlexA>>), ExceptionResult}

\* a faulty flattening that takes the results last to first
RECURSIVE Flatten_LastFirst(_)
Flatten_LastFirst(results) ==
    IF results = << >> THEN << >>
    ELSE Flatten_LastFirst(Tail(results))
         \o (IF Head(results).kind = "list" THEN Head(results).papers ELSE << >>)

\* "Flatten results and filter errors" (lines 121-127)
RECURSIVE Flatten(_)
Flatten(results) ==
    IF results = << >> THEN << >>
    ELSE (IF Head(results).kind = "list" THEN Head(results).papers ELSE << >>)
         \o Flatten(Tail(results))

\* sorted(deduplicated, key=citation_count, reverse=True): stable, descending
RECURSIVE InsertSorted(_, _)
InsertSorted(sorted, paper) ==
    IF sorted = << >> THEN <<paper>>
    ELSE IF Head(sorted).citation_count >= paper.citation_count
         THEN CHOOSE r \in {<<Head(sorted)>> \o InsertSorted(rest, paper) :
                              rest \in {Tail(sorted)}} : TRUE
         ELSE <<paper>> \o sorted

\* a faulty sort that leaves the list in deduplication order
SortByCitations_KeepsOrder(list) == list

RECURSIVE SortByCitations(_)
SortByCitations(list) ==
    IF list = << >> THEN << >>
    ELSE CHOOSE r \in {InsertSorted(sorted, list[Len(list)]) :
                           sorted \in {SortByCitations(SubSeq(list, 1, Len(list) - 1))}} : TRUE

\* list[:limit] for limit >= 0
Truncate(list, limit) == SubSeq(list, 1, IF limit < Len(list) THEN limit ELSE Len(list))

\* the response dict of search (lines 75-88)
Response(query, limit, deduplicated, active_sources) ==
    LET sorted_papers == Truncate(SortByCitations(deduplicated), limit)
    IN  [papers       |-> sorted_papers,
         total        |-> Len(sorted_papers),
         query        |-> query,
         sources_used |-> active_sources,
         cached       |-> FALSE]

\* the characters of the query strings and of the prefix of the cache keys
QueryChars(s) ==
    CASE s = "search"     -> <<"s", "e", "a", "r", "c", "h">>
      [] s = "q1"         -> <<"q", "1">>
      [] s = "q2"         -> <<"q", "2">>
      [] s = "q1|limit:1" -> <<"q", "1", "|", "l", "i", "m", "i", "t", ":", "1">>

Digits == <<"0", "1", "2", "3", "4", "5", "6", "7", "8", "9">>

\* str(n) for an int n >= 0, as the f-string of line 24 formats the limit
RECURSIVE Str(_)
Str(n) == IF n < 10 THEN <<Digits[n + 1]>> ELSE Str(n \div 10) \o <<Digits[(n % 10) + 1]>>

\* key_string of _generate_cache_key (lines 22-26): "|".join of the prefix, the
\* query and the one pair "limit:<limit>" of kwargs
KeyString(prefix, query, limit) ==
    QueryChars(prefix) \o <<"|">> \o QueryChars(query) \o <<"|">>
        \o <<"l", "i", "m", "i", "t", ":">> \o Str(limit)

\* hashlib.md5(...).hexdigest(): taken to be free of collisions
Md5Hex(cs) == [md5 |-> cs]

\* a faulty key that leaves the limit out
_generate_cache_key_NoLimit(prefix, query, limit) ==
    <<prefix, ":", Md5Hex(QueryChars(prefix) \o <<"|">> \o QueryChars(query))>>

\* _generate_cache_key(prefix, query, limit=limit): f"{prefix}:{key_hash}"
_generate_cache_key(prefix, query, limit) ==
    <<prefix, ":", Md5Hex(KeyString(prefix, query, limit))>>

\* json.dumps raises TypeError on a datetime
JsonSerializable(response) ==
    \A n \in 1..Len(response.papers) : response.papers[n].publication_date = None

\* json.dumps(results) and json.loads(cached_data)
JsonDumps(response) == [json |-> response]
JsonLoads(text) == text.json

\* get_search_results(query, limit): None on a miss or when the backend raised
get_search_results(store, query, limit, backend_fails) ==
    LET cache_key == _generate_cache_key("search", query, limit)
    IN  IF backend_fails \/ cache_key \notin DOMAIN store
        THEN << >>
        ELSE <<JsonLoads(store[cache_key])>>

\* a faulty set_search_results that stores the response marked as cached
set_search_results_MarksCached(store, query, results, limit, backend_fails) ==
    IF backend_fails \/ ~JsonSerializable(results)
    THEN store
    ELSE DictSet(store, _generate_cache_key("search", query, limit),
                 JsonDumps([results EXCEPT !.cached = TRUE]))

\* set_search_results(query, results, limit): the store after the call
set_search_results(store, query, results, limit, backend_fails) ==
    LET cache_key == _generate_cache_key("search", query, limit)
    IN  IF backend_fails \/ ~JsonSerializable(results)
        THEN store
        ELSE DictSet(store, cache_key, JsonDumps(results))

\* the arguments of the calls of search
SearchCalls ==
    {[query |-> c[1], limit |-> c[2], sources |-> << >>, use_cache |-> u] :
        c \in {<<"q1", 100>>, <<"q1", 1>>, <<"q2", 100>>}, u \in BOOLEAN}
    \cup
    {[query |-> "q1", limit |-> 100, sources |-> srcs, use_cache |-> TRUE] :
        srcs \in {<<"arxiv">>, <<"arxiv", "arxiv">>, <<"pubmed">>,
                  <<"semantic_scholar", "pubmed", "openalex">>}}
    \cup
    {[query |-> "q1", limit |-> 100, sources |-> <<"pubmed">>, use_cache |-> FALSE]}

\* number of calls of search in a run
MaxCalls == 2

(***************************************************************************)
(* State.                                                                  *)
(***************************************************************************)
VARIABLES
    papers,        \* the argument of deduplicate_papers (of save_papers_to_db in SaveSpec)
    pos,           \* number of records the loop has taken
    deduplicated,  \* the local list deduplicated
    seen_ids,      \* the local dict seen_ids
    seen_titles,   \* the local dict seen_titles
    dedup_pc,      \* "loop", "returned" or "raised"
    raised,        \* the exception deduplicate_papers raised, "" when none
    contrib,       \* history: for each slot of deduplicated, the input positions merged into it
    last,          \* history: what the last iteration did
    store,         \* the Redis database: cache key -> JSON text
    svc_pc,        \* "idle", or "gather" while search awaits the fan-out
    call,          \* the arguments of the call of search in progress, and history: an
                   \* adapter call completed while one before it in the list was pending
    active_sources,\* active_sources of the call in progress
    tasks,         \* the adapter calls of the fan-out: << >> while pending, else <<result>>
    evicted,       \* history: a cache entry expired or was invalidated since the last call began
    log,           \* history: one entry per finished call of search (per call of the
                   \* cache in CacheSpec, of _save_paper_to_db in SaveSpec)
    db,            \* the rows of the papers table, in the order they were inserted
    saved,         \* the local list saved of save_papers_to_db
    save_pc        \* "loop" or "returned"

dedup_vars == <<papers, pos, deduplicated, seen_ids, seen_titles, dedup_pc, raised,
                contrib, last>>

svc_vars == <<store, svc_pc, call, active_sources, tasks, evicted, log>>

db_vars == <<db, saved, save_pc>>

vars == <<dedup_vars, svc_vars, db_vars>>

NoStep == [op |-> "none", existing |-> << >>, incoming |-> << >>, merged |-> << >>, slot |-> 0]

\* the service before its first call: an empty cache
ServiceIdle ==
    /\ store = << >>
    /\ svc_pc = "idle"
    /\ call = << >>
    /\ active_sources = << >>
    /\ tasks = << >>
    /\ evicted = FALSE
    /\ log = << >>
    /\ db = << >>
    /\ saved = << >>
    /\ save_pc = "loop"

DedupInit ==
    /\ ServiceIdle
    /\ \E F \in Families : papers \in SeqsUpTo(F, MaxPapers)
    /\ pos = 0
    /\ deduplicated = << >>
    /\ seen_ids = << >>
    /\ seen_titles = << >>
    /\ dedup_pc = "loop"
    /\ raised = ""
    /\ contrib = << >>
    /\ last = NoStep

\* one iteration of the loop of deduplicate_papers
Iterate ==
    /\ dedup_pc = "loop"
    /\ pos < Len(papers)
    /\ \E paper \in {papers[pos + 1]} :
       \E matching_paper \in {MatchingPaper(paper, seen_ids, seen_titles)} :
       \E next \in {DedupIteration([deduplicated |-> deduplicated, seen_ids |-> seen_ids,
                                    seen_titles |-> seen_titles, raised |-> ""], paper)} :
       \E idx \in {IF matching_paper = << >> THEN 0
                   ELSE ListIndex(deduplicated, matching_paper[1])} :
           /\ pos' = pos + 1
           /\ deduplicated' = next.deduplicated
           /\ seen_ids' = next.seen_ids
           /\ seen_titles' = next.seen_titles
           /\ raised' = next.raised
           /\ dedup_pc' = IF next.raised # "" THEN "raised" ELSE "loop"
           /\ contrib' = IF next.raised # "" THEN contrib
                         ELSE IF matching_paper = << >> THEN Append(contrib, {pos + 1})
                         ELSE [contrib EXCEPT ![idx] = @ \cup {pos + 1}]
           /\ last' = IF next.raised # ""
                      THEN [op |-> "raise", existing |-> matching_paper,
                            incoming |-> <<paper>>, merged |-> << >>, slot |-> idx]
                      ELSE IF matching_paper = << >>
                      THEN [op |-> "new", existing |-> << >>, incoming |-> <<paper>>,
                            merged |-> << >>, slot |-> Len(deduplicated) + 1]
                      ELSE [op |-> "merge", existing |-> matching_paper,
                            incoming |-> <<paper>>,
                            merged |-> <<next.deduplicated[idx]>>, slot |-> idx]
    /\ UNCHANGED <<papers, svc_vars, db_vars>>

\* "return deduplicated" (line 84), or "return []" for an empty argument (line 22)
Return ==
    /\ dedup_pc = "loop"
    /\ pos = Len(papers)
    /\ dedup_pc' = "returned"
    /\ UNCHANGED <<papers, pos, deduplicated, seen_ids, seen_titles, raised, contrib, last,
                   svc_vars, db_vars>>

DedupNext == Iterate \/ Return

DedupSpec == DedupInit /\ [][DedupNext]_vars

(***************************************************************************)
(* The calls of UnifiedSearchService.search, one at a time.  search runs   *)
(* without suspension up to the await of the fan-out (SearchCacheHit,      *)
(* SearchNoSources, SearchFanOut), the adapter calls complete one by one   *)
(* (AdapterReturns), and search resumes when gather has every result       *)
(* (GatherCompletes) or wait_for times out (GatherTimeout).                *)
(***************************************************************************)
Init ==
    /\ ServiceIdle
    /\ papers = << >>
    /\ pos = 0
    /\ deduplicated = << >>
    /\ seen_ids = << >>
    /\ seen_titles = << >>
    /\ dedup_pc = "loop"
    /\ raised = ""
    /\ contrib = << >>
    /\ last = NoStep

\* a faulty lookup that reads the cache whatever use_cache is
CacheLookup_IgnoresUseCache(c, get_fails) ==
    get_search_results(store, c.query, c.limit, get_fails)

\* the cache lookup of lines 59-63: << >> when search goes on to the fan-out
CacheLookup(c, get_fails) ==
    IF c.use_cache THEN get_search_results(store, c.query, c.limit, get_fails) ELSE << >>

LogEntry(c, get_failed, evicted_before) ==
    [args |-> c, get_failed |-> get_failed, evicted_before |-> evicted_before,
     outcome |-> "", response |-> << >>, error |-> "", fanout |-> FALSE,
     invoked |-> << >>, timed_out |-> FALSE, arrived |-> << >>, results |-> << >>,
     all_papers |-> << >>, deduplicated |-> << >>, set_failed |-> FALSE,
     out_of_order |-> FALSE]

\* lines 59-63: the cached response is returned with cached = True
SearchCacheHit ==
    /\ svc_pc = "idle"
    /\ Len(log) < MaxCalls
    /\ \E c \in SearchCalls :
          LET cached == CacheLookup(c, FALSE)
          IN  /\ cached # << >>
              /\ log' = Append(log, [LogEntry(c, FALSE, evicted) EXCEPT
                                        !.outcome = "response",
                                        !.response = <<[cached[1] EXCEPT !.cached = TRUE]>>])
    /\ evicted' = FALSE
    /\ UNCHANGED <<store, svc_pc, call, active_sources, tasks, dedup_vars, db_vars>>

\* lines 66-69 and 104: no active source, limit // len(sources) raises ZeroDivisionError
SearchNoSources ==
    /\ svc_pc = "idle"
    /\ Len(log) < MaxCalls
    /\ \E c \in SearchCalls, get_fails \in BOOLEAN :
          /\ get_fails => c.use_cache
          /\ CacheLookup(c, get_fails) = << >>
          /\ Len(_get_active_sources(c.sources)) = 0
          /\ log' = Append(log, [LogEntry(c, get_fails, evicted) EXCEPT
                                    !.outcome = "raised",
                                    !.error = "ZeroDivisionError"])
    /\ evicted' = FALSE
    /\ UNCHANGED <<store, svc_pc, call, active_sources, tasks, dedup_vars, db_vars>>

\* lines 66-69 and 104-116: one adapter call per active source, then the await
SearchFanOut ==
    /\ svc_pc = "idle"
    /\ Len(log) < MaxCalls
    /\ \E c \in SearchCalls, get_fails \in BOOLEAN :
          /\ get_fails => c.use_cache
          /\ CacheLookup(c, get_fails) = << >>
          /\ Len(_get_active_sources(c.sources)) > 0
          /\ call' = [args |-> c, get_failed |-> get_fails, evicted_before |-> evicted,
                      out_of_order |-> FALSE]
          /\ active_sources' = _get_active_sources(c.sources)
          /\ tasks' = [n \in 1..Len(_get_active_sources(c.sources)) |-> << >>]
    /\ svc_pc' = "gather"
    /\ UNCHANGED <<store, evicted, log, dedup_vars, db_vars>>

\* an adapter's search returns (or raises) while search awaits the fan-out
AdapterReturns ==
    /\ svc_pc = "gather"
    /\ \E n \in 1..Len(tasks) :
          /\ tasks[n] = << >>
          /\ \E r \in AdapterResults(active_sources[n]) :
                tasks' = [tasks EXCEPT ![n] = <<r>>]
          /\ call' = [call EXCEPT !.out_of_order =
                                     @ \/ \E m \in 1..(n - 1) : tasks[m] = << >>]
    /\ UNCHANGED <<store, svc_pc, active_sources, evicted, log, dedup_vars, db_vars>>

\* the adapter calls of _parallel_search: source, query and limit of each
Invoked(c, sources) ==
    [n \in 1..Len(sources) |->
        [source |-> sources[n], query |-> c.query,
         limit |-> per_source_limit(c.limit, sources)]]

\* the records of the lists the adapter calls have returned so far, in task order
RECURSIVE Arrived(_)
Arrived(ts) ==
    IF ts = << >> THEN << >>
    ELSE (IF Head(ts) # << >> /\ Head(ts)[1].kind = "list" THEN Head(ts)[1].papers
          ELSE << >>) \o Arrived(Tail(ts))

\* lines 121-129 and 71-94: search from the result of the await to its return;
\* results is what the try block of _parallel_search left in "results"
Resume(results, timed_out, set_fails) ==
    \E c \in {call.args} :
    \E all_papers \in {Flatten(results)} :
    \E d \in {deduplicate_papers(all_papers)} :
    \E response \in {Response(c.query, c.limit, d.papers, active_sources)} :
    LET entry == [LogEntry(c, call.get_failed, call.evicted_before) EXCEPT
                     !.fanout = TRUE,
                     !.invoked = Invoked(c, active_sources),
                     !.timed_out = timed_out,
                     !.arrived = Arrived(tasks),
                     !.results = results,
                     !.out_of_order = ~timed_out /\ call.out_of_order,
                     !.all_papers = all_papers,
                     !.deduplicated = d.papers]
    IN  /\ set_fails => (c.use_cache /\ d.raised = "")
        /\ IF d.raised # ""
           THEN /\ log' = Append(log, [entry EXCEPT !.outcome = "raised",
                                                    !.error = d.raised])
                /\ store' = store
           ELSE /\ log' = Append(log, [entry EXCEPT !.outcome = "response",
                                                    !.response = <<response>>,
                                                    !.set_failed = set_fails])
                /\ store' = IF c.use_cache
                            THEN set_search_results(store, c.query, response, c.limit,
                                                    set_fails)
                            ELSE store
        /\ svc_pc' = "idle"
        /\ call' = << >>
        /\ active_sources' = << >>
        /\ tasks' = << >>
        /\ evicted' = FALSE
        /\ UNCHANGED <<dedup_vars, db_vars>>

\* gather has the result of every adapter call (lines 113-116)
GatherCompletes ==
    /\ svc_pc = "gather"
    /\ \A n \in 1..Len(tasks) : tasks[n] # << >>
    /\ \E set_fails \in BOOLEAN :
          Resume([n \in 1..Len(tasks) |-> tasks[n][1]], FALSE, set_fails)

\* wait_for raises TimeoutError while an adapter call is pending (lines 117-119)
GatherTimeout ==
    /\ svc_pc = "gather"
    /\ \E n \in 1..Len(tasks) : tasks[n] = << >>
    /\ \E set_fails \in BOOLEAN : Resume(<< >>, TRUE, set_fails)

\* a cache entry expires (the ttl of setex) or invalidate_search deletes it; taken
\* between calls only, as search reads the cache before and writes it after the await
CacheEvict ==
    /\ svc_pc = "idle"
    /\ \E k \in DOMAIN store :
          store' = [x \in DOMAIN store \ {k} |-> store[x]]
    /\ evicted' = TRUE
    /\ UNCHANGED <<svc_pc, call, active_sources, tasks, log, dedup_vars, db_vars>>

Next ==
    \/ SearchCacheHit
    \/ SearchNoSources
    \/ SearchFanOut
    \/ AdapterReturns
    \/ GatherCompletes
    \/ GatherTimeout
    \/ CacheEvict

Spec == Init /\ [][Next]_vars

(***************************************************************************)
(* Properties of deduplicate_papers, checked under DedupSpec.              *)
(***************************************************************************)
Returned == dedup_pc = "returned"

Slots == 1..Len(deduplicated)

\* two records hold the same value, lower-cased and trimmed, in field f
SameId(p, q, f) == p[f] # None /\ q[f] # None /\ NormKeyOf[p[f]] = NormKeyOf[q[f]]

\* C1: the list deduplicate_papers returns holds no two records with the same
\* non-null value (lower-cased, trimmed) in the same identifier field.
C1_NoSharedIdentifier ==
    Returned =>
        \A i \in Slots, j \in Slots :
            i # j => \A n \in 1..Len(IdFields) :
                        ~SameId(deduplicated[i], deduplicated[j], IdFields[n])

\* the fields of a record that C4 compares
Content(p) ==
    [title |-> p.title, doi |-> p.doi, arxiv_id |-> p.arxiv_id,
     semantic_scholar_id |-> p.semantic_scholar_id, openalex_id |-> p.openalex_id,
     abstract |-> p.abstract, citation_count |-> p.citation_count,
     pdf_url |-> p.pdf_url, venue |-> p.venue, source |-> p.source]

Contents(list) == [n \in 1..Len(list) |-> Content(list[n])]

\* C4: deduplicate_papers is idempotent: applied to the list it returned, it
\* returns the same number of records, in the same order, with the same
\* identifier, title, abstract, citation_count, pdf_url, venue and source.
C4_Idempotent ==
    Returned =>
        /\ deduplicate_papers(deduplicated).raised = ""
        /\ Contents(deduplicate_papers(deduplicated).papers) = Contents(deduplicated)

\* the last iteration merged the incoming record into a record of the output
Merged == last.op = "merge"

\* C7 as the specification has it: a merge yields a record whose citation_count
\* is at least that of the existing and of the incoming record, and in which
\* every identifier field that is non-null in either of the two is non-null.
C7_NonNullKept ==
    Merged =>
        /\ last.merged[1].citation_count >= last.existing[1].citation_count
        /\ last.merged[1].citation_count >= last.incoming[1].citation_count
        /\ \A n \in 1..Len(IdFields) :
              (last.existing[1][IdFields[n]] # None \/ last.incoming[1][IdFields[n]] # None)
                  => last.merged[1][IdFields[n]] # None

\* C7, amended: a merge yields a record whose citation_count is at least that of
\* the existing and of the incoming record, and in which every identifier field
\* that holds a non-empty string in either of the two holds a non-empty string.
C7_MergeKeeps ==
    Merged =>
        /\ last.merged[1].citation_count >= last.existing[1].citation_count
        /\ last.merged[1].citation_count >= last.incoming[1].citation_count
        /\ \A n \in 1..Len(IdFields) :
              (Truthy(last.existing[1][IdFields[n]]) \/ Truthy(last.incoming[1][IdFields[n]]))
                  => Truthy(last.merged[1][IdFields[n]])

\* C7's case: a merge that raised the citation count of the existing record and
\* gave it an identifier it did not have
C7_Witness ==
    /\ Merged
    /\ last.merged[1].citation_count > last.existing[1].citation_count
    /\ \E n \in 1..Len(IdFields) :
          /\ ~Truthy(last.existing[1][IdFields[n]])
          /\ Truthy(last.incoming[1][IdFields[n]])
          /\ last.merged[1][IdFields[n]] = last.incoming[1][IdFields[n]]

IncomingIsPrimary ==
    \/ /\ last.incoming[1].source = "semantic_scholar"
       /\ last.existing[1].source # "semantic_scholar"
    \/ /\ last.incoming[1].source = "arxiv"
       /\ last.existing[1].source \notin {"semantic_scholar", "arxiv"}
    \/ /\ last.incoming[1].source = "openalex"
       /\ last.existing[1].source \notin KnownSources

MergePrimary == IF IncomingIsPrimary THEN last.incoming[1] ELSE last.existing[1]

MergeSecondary == IF IncomingIsPrimary THEN last.existing[1] ELSE last.incoming[1]

Range(list) == {list[n] : n \in 1..Len(list)}

\* C9: the sources field of every output record that results from merges lists
\* the source of every input record merged into it.
C9_SourcesListContributors ==
    Returned =>
        \A n \in Slots :
            Cardinality(contrib[n]) > 1 =>
                \A k \in contrib[n] : papers[k].source \in Range(deduplicated[n].sources)

\* C10: the citation_count of every output record is the maximum citation_count
\* over the input records merged into it.
C10_CitationIsMax ==
    Returned =>
        \A n \in Slots :
            /\ \E k \in contrib[n] : deduplicated[n].citation_count = papers[k].citation_count
            /\ \A k \in contrib[n] : deduplicated[n].citation_count >= papers[k].citation_count

\* C10's case: three inputs merged into one output record, the second of them
\* with the largest citation count
C10_Witness ==
    /\ Returned
    /\ Len(papers) = 3
    /\ Len(deduplicated) = 1
    /\ contrib[1] = {1, 2, 3}
    /\ papers[1].citation_count < papers[2].citation_count
    /\ papers[3].citation_count < papers[2].citation_count
    /\ papers[1].citation_count # papers[3].citation_count

(***************************************************************************)
(* Properties of UnifiedSearchService.search, checked under Spec.          *)
(***************************************************************************)
Calls == 1..Len(log)

\* C2: search never raises to its caller; every call returns a response.
C2_NeverRaises == \A n \in Calls : log[n].outcome = "response"

\* C3: when the fan-out times out after some adapter calls returned lists, the
\* records of those lists are passed on to deduplication.
C3_TimeoutKeepsArrived ==
    \A n \in Calls :
        (log[n].timed_out /\ log[n].arrived # << >>) => log[n].all_papers = log[n].arrived

\* C5: of two successive calls with the same query and limit and use_cache=true,
\* with no expiry or invalidation in between, the second performs no fan-out
\* (here: when the first call returned a response and the cache backend worked).
C5_SecondCallFromCache ==
    (/\ Len(log) = 2
     /\ log[1].args.query = log[2].args.query
     /\ log[1].args.limit = log[2].args.limit
     /\ log[1].args.use_cache /\ log[2].args.use_cache
     /\ log[1].outcome = "response"
     /\ ~log[1].get_failed /\ ~log[1].set_failed /\ ~log[2].get_failed
     /\ ~log[2].evicted_before)
        => ~log[2].fanout

\* an adapter call failed: it raised, or returned the empty list of a failure
Failed(r) == r.kind = "exception" \/ r.papers = << >>

\* C6: when one adapter call fails and the others return lists before the
\* deadline, the records of those lists are all passed to deduplication and
\* the response holds their merged, ranked records, not an error or no record.
C6_OneFailureTolerated ==
    \A n \in Calls :
        (/\ log[n].fanout /\ ~log[n].timed_out
         /\ Cardinality({k \in 1..Len(log[n].results) : Failed(log[n].results[k])}) = 1
         /\ Len(log[n].results) > 1)
            => /\ log[n].all_papers = Flatten(log[n].results)
               /\ log[n].outcome = "response"
               /\ log[n].response[1].papers # << >>
               /\ log[n].response[1].papers =
                     Truncate(SortByCitations(deduplicate_papers(log[n].all_papers).papers),
                              log[n].args.limit)

(***************************************************************************)
(* Further properties of deduplicate_papers, checked under DedupSpec.      *)
(***************************************************************************)
\* C11: the abstract of every output record is the abstract of one of the input
\* records merged into it and is at least as long as the abstract of each of
\* them; a merge replaces the abstract of the primary record only by a strictly
\* longer abstract of the secondary record.
C11_LongestAbstract ==
    /\ Returned =>
          \A n \in Slots :
              /\ \E k \in contrib[n] : deduplicated[n].abstract = papers[k].abstract
              /\ Cardinality(contrib[n]) > 1 =>
                    \A k \in contrib[n] :
                        /\ papers[k].abstract # None
                        /\ AbstractLen(deduplicated[n]) >= AbstractLen(papers[k])
    /\ Merged =>
          \/ last.merged[1].abstract = MergePrimary.abstract
          \/ /\ last.merged[1].abstract = MergeSecondary.abstract
             /\ AbstractLen(MergeSecondary) > AbstractLen(MergePrimary)

\* C11's case: three inputs merged into one output record, the longest abstract
\* coming from the second, lower-priority one
C11_Witness ==
    /\ Returned
    /\ Len(papers) = 3
    /\ Len(deduplicated) = 1
    /\ contrib[1] = {1, 2, 3}
    /\ papers[1].source = "semantic_scholar" /\ papers[2].source = "arxiv"
    /\ papers[1].abstract = "p" /\ papers[2].abstract = "rr" /\ papers[3].abstract = ""
    /\ deduplicated[1].abstract = "rr"

\* what one iteration may do to the output list: append the incoming record, or
\* replace the slot that holds the matched record by the merge of the two
C12_AppendOrReplace ==
    \/ deduplicated' = Append(deduplicated, papers[pos + 1])
    \/ \E n \in Slots :
          /\ last'.existing = <<deduplicated[n]>>
          /\ deduplicated' =
                [deduplicated EXCEPT ![n] = _merge_papers(deduplicated[n], papers[pos + 1])]

\* C12: processing one input record either appends exactly one record at the end
\* of the output or replaces exactly the slot of the matched record; no other
\* slot changes, and nothing else changes the output (an iteration that raises
\* leaves the list as it was).
C12_OrderPreserved ==
    [][IF pos' # pos /\ raised' = "" THEN C12_AppendOrReplace
       ELSE deduplicated' = deduplicated]_vars

\* C12's case: the third input was merged into the first slot of an output of
\* two records
C12_Witness ==
    /\ pos = 3
    /\ last.op = "merge"
    /\ contrib = <<{1, 3}, {2}>>
    /\ deduplicated[1] = _merge_papers(papers[1], papers[3])
    /\ deduplicated[2] = papers[2]

\* the input record at position k holds a non-empty identifier that an earlier
\* input record holds in the same field
SharesEarlierId(k) ==
    \E j \in 1..(k - 1), n \in 1..Len(IdFields) :
        /\ Truthy(papers[k][IdFields[n]])
        /\ SameId(papers[j], papers[k], IdFields[n])

\* C13: an input record that shares an identifier with an earlier one adds no
\* output record (the output has at most one record per input record that
\* shares none) and is merged into a slot of the output.
C13_SharedIdIsMerged ==
    /\ Len(deduplicated) <= Cardinality({k \in 1..pos : ~SharesEarlierId(k)})
    /\ (pos > 0 /\ SharesEarlierId(pos)) => last.op = "merge"

(***************************************************************************)
(* Further properties of UnifiedSearchService.search, checked under Spec.  *)
(***************************************************************************)
\* the calls that computed their response (fan-out, deduplication, ranking)
Computed == {n \in Calls : log[n].fanout /\ log[n].outcome = "response"}

\* the list deduplication returned in call n (line 72)
Unique(n) == log[n].deduplicated

\* the place of d[i] in a stable descending sort of d by citation_count
Rank(d, i) ==
    1 + Cardinality({j \in 1..Len(d) : d[j].citation_count > d[i].citation_count})
      + Cardinality({j \in 1..(i - 1) : d[j].citation_count = d[i].citation_count})

\* C14: the papers of a computed response are the deduplicated records in
\* descending order of citation_count, ties in deduplication order, cut to the
\* first limit records.
C14_RankedAndTruncated ==
    \A n \in Computed :
        /\ Len(log[n].response[1].papers) =
              IF log[n].args.limit < Len(Unique(n)) THEN log[n].args.limit
              ELSE Len(Unique(n))
        /\ \A i \in 1..Len(Unique(n)) :
              Rank(Unique(n), i) <= log[n].args.limit
                  => log[n].response[1].papers[Rank(Unique(n), i)] = Unique(n)[i]

\* C14's case: three unique records, the most cited one last in deduplication
\* order, and a limit of 1
C14_Witness ==
    \E n \in Computed :
        /\ log[n].args.limit = 1
        /\ Len(Unique(n)) = 3
        /\ Unique(n)[1].citation_count = Unique(n)[2].citation_count
        /\ Unique(n)[3].citation_count > Unique(n)[1].citation_count
        /\ log[n].response[1].papers = <<Unique(n)[3]>>

\* C15: in a computed response, total is the number of unique records that
\* deduplication produced from the fan-out results.
C15_TotalIsUniqueCount ==
    \A n \in Computed : log[n].response[1].total = Len(Unique(n))

\* C16: in a computed response, sources_used names each queried adapter once:
\* no name twice, every queried adapter's name, no other name.
C16_SourcesUsedDistinct ==
    \A n \in Computed :
        /\ \A i, j \in 1..Len(log[n].response[1].sources_used) :
              i # j => log[n].response[1].sources_used[i] # log[n].response[1].sources_used[j]
        /\ Range(log[n].response[1].sources_used) =
              {log[n].invoked[k].source : k \in 1..Len(log[n].invoked)}

\* the calls that went on to the fan-out
FannedOut == {n \in Calls : log[n].fanout}

\* C17: in a fan-out over n active sources, each active adapter's search is
\* invoked exactly once, with the query of the call and the cap
\* max(20, limit // n).
C17_OneCallPerAdapter ==
    \A n \in FannedOut :
        \A k \in 1..Len(log[n].invoked) :
            /\ \A j \in 1..Len(log[n].invoked) :
                  j # k => log[n].invoked[j].source # log[n].invoked[k].source
            /\ log[n].invoked[k].query = log[n].args.query
            /\ log[n].invoked[k].limit =
                  IF log[n].args.limit \div Len(log[n].invoked) > 20
                  THEN log[n].args.limit \div Len(log[n].invoked) ELSE 20

\* the number of records the first k results of call n hold in their lists
RECURSIVE Offset(_, _)
Offset(n, k) ==
    IF k = 0 THEN 0
    ELSE Offset(n, k - 1)
         + (IF log[n].results[k].kind = "list" THEN Len(log[n].results[k].papers) ELSE 0)

\* C18: when every adapter call has completed, in whatever order, the sequence
\* handed to deduplication is the concatenation of the adapters' result lists
\* in the order of the active source list, each list in its own order.
C18_ConcatenatedInSourceOrder ==
    \A n \in FannedOut :
        ~log[n].timed_out =>
            /\ Len(log[n].results) = Len(log[n].invoked)
            /\ Len(log[n].all_papers) = Offset(n, Len(log[n].results))
            /\ \A k \in 1..Len(log[n].results) :
                  /\ log[n].results[k] \in AdapterResults(log[n].invoked[k].source)
                  /\ log[n].results[k].kind = "list" =>
                        \A i \in 1..Len(log[n].results[k].papers) :
                            log[n].all_papers[Offset(n, k - 1) + i] = log[n].results[k].papers[i]

\* C18's case: an adapter call completed before one that precedes it in the
\* source list, and two adapters returned records
C18_Witness ==
    \E n \in FannedOut :
        /\ ~log[n].timed_out
        /\ log[n].out_of_order
        /\ Len(log[n].results) = 3
        /\ log[n].results[1] = ListResult(<<ArxivB, ArxivC>>)
        /\ log[n].results[2] = ListResult(<<ScholarA>>)
        /\ log[n].all_papers = <<ArxivB, ArxivC, ScholarA>>

\* the calls that returned a response
Responded == {n \in Calls : log[n].outcome = "response"}

\* the cache key of call n
KeyOf(n) == _generate_cache_key("search", log[n].args.query, log[n].args.limit)

\* C19: a response has cached = true exactly when it was served from the cache
\* without querying an adapter (it is then a response an earlier call computed
\* for the same key), cached = false exactly when the call computed it, and
\* what the cache holds are computed responses as they were returned.
C19_CachedMarker ==
    /\ \A n \in Responded :
          /\ log[n].response[1].cached = ~log[n].fanout
          /\ ~log[n].fanout =>
                /\ log[n].invoked = << >>
                /\ \E m \in 1..(n - 1) :
                      /\ m \in Computed
                      /\ KeyOf(m) = KeyOf(n)
                      /\ log[n].response[1] = [log[m].response[1] EXCEPT !.cached = TRUE]
    /\ \A k \in DOMAIN store :
          \E m \in Computed : KeyOf(m) = k /\ JsonLoads(store[k]) = log[m].response[1]
    /\ (/\ log # << >>
        /\ Len(log) \in Computed
        /\ log[Len(log)].args.use_cache
        /\ ~log[Len(log)].set_failed
        /\ JsonSerializable(log[Len(log)].response[1])
        /\ ~evicted)
          => /\ KeyOf(Len(log)) \in DOMAIN store
             /\ JsonLoads(store[KeyOf(Len(log))]) = log[Len(log)].response[1]

\* C19's case: a computed response with records, then the same response served
\* from the cache
C19_Witness ==
    /\ Len(log) = 2
    /\ 1 \in Computed
    /\ log[1].response[1].papers # << >>
    /\ ~log[1].response[1].cached
    /\ ~log[2].fanout
    /\ 2 \in Responded
    /\ log[2].response[1].cached
    /\ log[2].response[1].papers = log[1].response[1].papers

\* C20: when the cache backend fails on get or on set, a call with
\* use_cache=true performs the fan-out and returns the computed response with
\* cached = false; it does not raise.
C20_CacheFailureIsMiss ==
    \A n \in Calls :
        (log[n].args.use_cache /\ (log[n].get_failed \/ log[n].set_failed))
            => /\ log[n].fanout
               /\ log[n].outcome = "response"
               /\ ~log[n].response[1].cached

(***************************************************************************)
(* CacheService on its own: calls of set_search_results, get_search_results*)
(* and invalidate_search in any order, each recorded in log with the key   *)
(* it built.                                                               *)
(***************************************************************************)
\* number of calls of the cache in a run
MaxCacheOps == 3

CacheQueries == {"q1", "q2", "q1|limit:1"}

CacheLimits == {1, 11}

\* the response dicts handed to set_search_results
CacheValues ==
    {Response("q1", 100, << >>, AllSources), Response("q1", 100, <<ArxivB>>, AllSources)}

CacheOp(op, query, limit, results, returned) ==
    [op |-> op, query |-> query, limit |-> limit,
     key_string |-> KeyString("search", query, limit),
     key |-> _generate_cache_key("search", query, limit),
     results |-> results, returned |-> returned]

\* set_search_results(query, results, limit): returned is <<True>> or <<False>>
SetSearchResults ==
    /\ Len(log) < MaxCacheOps
    /\ \E query \in CacheQueries, limit \in CacheLimits, results \in CacheValues,
          backend_fails \in BOOLEAN :
          /\ store' = set_search_results(store, query, results, limit, backend_fails)
          /\ log' = Append(log, CacheOp("set", query, limit, <<results>>,
                                        <<~backend_fails /\ JsonSerializable(results)>>))
    /\ UNCHANGED <<svc_pc, call, active_sources, tasks, evicted, dedup_vars, db_vars>>

\* get_search_results(query, limit): returned is << >> for None, else <<dict>>
GetSearchResults ==
    /\ Len(log) < MaxCacheOps
    /\ \E query \in CacheQueries, limit \in CacheLimits, backend_fails \in BOOLEAN :
          log' = Append(log, CacheOp("get", query, limit, << >>,
                                     get_search_results(store, query, limit, backend_fails)))
    /\ UNCHANGED <<store, svc_pc, call, active_sources, tasks, evicted, dedup_vars, db_vars>>

\* invalidate_search(query, limit) (lines 69-77), the backend not failing
InvalidateSearch ==
    /\ Len(log) < MaxCacheOps
    /\ \E query \in CacheQueries, limit \in CacheLimits :
          /\ store' = [x \in DOMAIN store \ {_generate_cache_key("search", query, limit)}
                          |-> store[x]]
          /\ log' = Append(log, CacheOp("invalidate", query, limit, << >>, <<TRUE>>))
    /\ UNCHANGED <<svc_pc, call, active_sources, tasks, evicted, dedup_vars, db_vars>>

CacheNext == SetSearchResults \/ GetSearchResults \/ InvalidateSearch

CacheSpec == Init /\ [][CacheNext]_vars

CacheOps == 1..Len(log)

SameSearch(m, n) == log[m].query = log[n].query /\ log[m].limit = log[n].limit

\* C21: the cache key is a function of (query, limit) only: two calls with the
\* same query and limit build the same key, two calls that differ in query or
\* in limit build different key strings and keys, and what get_search_results
\* returns was stored by an earlier set_search_results with the same query and
\* limit.
C21_KeyOfQueryAndLimit ==
    /\ \A m \in CacheOps, n \in CacheOps :
          /\ SameSearch(m, n) <=> log[m].key_string = log[n].key_string
          /\ SameSearch(m, n) <=> log[m].key = log[n].key
    /\ \A n \in CacheOps :
          (log[n].op = "get" /\ log[n].returned # << >>)
              => \E m \in 1..(n - 1) :
                    /\ log[m].op = "set"
                    /\ SameSearch(m, n)
                    /\ log[m].returned = <<TRUE>>
                    /\ log[n].returned = log[m].results

\* C21's case: a value stored for ("q1|limit:1", 1) and another for ("q1", 1);
\* the get of ("q1", 1) returned the second
C21_Witness ==
    /\ Len(log) = 3
    /\ log[1].op = "set" /\ log[1].query = "q1|limit:1" /\ log[1].limit = 1
    /\ log[2].op = "set" /\ log[2].query = "q1" /\ log[2].limit = 1
    /\ log[1].returned = <<TRUE>> /\ log[2].returned = <<TRUE>>
    /\ log[1].results # log[2].results
    /\ log[3].op = "get" /\ log[3].query = "q1" /\ log[3].limit = 1
    /\ log[3].returned = log[2].results

(***************************************************************************)
(* save_papers_to_db and _save_paper_to_db.  A row of the papers table is  *)
(* a record with the primary key and the columns the lookup reads.  Each   *)
(* of the three database calls inside the try block (the query, commit,    *)
(* refresh) can raise; db.rollback() in the handler is taken not to raise. *)
(***************************************************************************)
\* longest list handed to save_papers_to_db
MaxBatch == 3

\* Paper(...) of lines 204-218, with the primary key the insert gives it
Row(id, paper_data) ==
    [id |-> id, arxiv_id |-> paper_data.arxiv_id, doi |-> paper_data.doi,
     semantic_scholar_id |-> paper_data.semantic_scholar_id,
     openalex_id |-> paper_data.openalex_id, title |-> paper_data.title,
     source |-> paper_data.source]

\* Paper.<f> == value as SQLAlchemy renders it: "<f> IS NULL" for None, else
\* "<f> = value", which no NULL column satisfies
ColumnEq(row, f, value) ==
    IF value = None THEN row[f] = None ELSE row[f] # None /\ row[f] = value

\* the filter of lines 193-198
FilterByAnyId(row, paper_data) ==
    \/ ColumnEq(row, "arxiv_id", paper_data.arxiv_id)
    \/ ColumnEq(row, "doi", paper_data.doi)
    \/ ColumnEq(row, "semantic_scholar_id", paper_data.semantic_scholar_id)
    \/ ColumnEq(row, "openalex_id", paper_data.openalex_id)

\* what .first() can return: << >> for None, else any row the filter selects
\* (the query has no ORDER BY)
FirstMatches(rows, paper_data) ==
    IF \E n \in 1..Len(rows) : FilterByAnyId(rows[n], paper_data)
    THEN {<<rows[n]>> : n \in {k \in 1..Len(rows) : FilterByAnyId(rows[k], paper_data)}}
    ELSE {<< >>}

\* the database calls of the try block that can raise; "" when none does
Faults == {"", "query", "commit", "refresh"}

\* _save_paper_to_db(paper_data, db): the table after the call and the value
\* returned (<< >> for None), given what first() returned and which call raised
_save_paper_to_db(rows, paper_data, existing, fault) ==
    IF fault = "query" THEN [db |-> rows, returned |-> << >>]
    ELSE IF existing # << >> THEN [db |-> rows, returned |-> existing]
    ELSE IF fault = "commit" THEN [db |-> rows, returned |-> << >>]
    ELSE IF fault = "refresh"
    THEN [db |-> Append(rows, Row(Len(rows) + 1, paper_data)), returned |-> << >>]
    ELSE [db |-> Append(rows, Row(Len(rows) + 1, paper_data)),
          returned |-> <<Row(Len(rows) + 1, paper_data)>>]

\* the records handed to save_papers_to_db: arXiv records without DOI, records
\* with every identifier, and one with three of them
SaveFamily ==
    {Paper("abc", None, "a1", None, None, "arxiv", 0, "", None, None),
     Paper("abcde", None, "a2", None, None, "arxiv", 0, "", None, None),
     Paper("abc", "d1", "a1", "s1", None, "semantic_scholar", 0, "", None, None),
     Paper("abc", "d1", "a1", "s1", "o1", "semantic_scholar", 0, "", None, None),
     Paper("abcde", "d2", "a2", "s2", "o2", "openalex", 0, "", None, None)}

SaveInit ==
    /\ ServiceIdle
    /\ papers \in SeqsUpTo(SaveFamily, MaxBatch)
    /\ pos = 0
    /\ deduplicated = << >>
    /\ seen_ids = << >>
    /\ seen_titles = << >>
    /\ dedup_pc = "loop"
    /\ raised = ""
    /\ contrib = << >>
    /\ last = NoStep

\* one iteration of the loop of save_papers_to_db (lines 238-241)
SavePaper ==
    /\ save_pc = "loop"
    /\ pos < Len(papers)
    /\ \E fault \in Faults, existing \in FirstMatches(db, papers[pos + 1]) :
       \E r \in {_save_paper_to_db(db, papers[pos + 1], existing, fault)} :
          /\ fault \in {"commit", "refresh"} => existing = << >>
          /\ db' = r.db
          /\ saved' = IF r.returned # << >> THEN Append(saved, r.returned[1]) ELSE saved
          /\ log' = Append(log, [paper_data |-> papers[pos + 1], fault |-> fault,
                                 db_before |-> db, db_after |-> r.db,
                                 returned |-> r.returned])
    /\ pos' = pos + 1
    /\ UNCHANGED <<papers, deduplicated, seen_ids, seen_titles, dedup_pc, raised, contrib,
                   last, store, svc_pc, call, active_sources, tasks, evicted, save_pc>>

\* "return saved" (line 242)
SaveReturn ==
    /\ save_pc = "loop"
    /\ pos = Len(papers)
    /\ save_pc' = "returned"
    /\ UNCHANGED <<dedup_vars, svc_vars, db, saved>>

SaveNext == SavePaper \/ SaveReturn

SaveSpec == SaveInit /\ [][SaveNext]_vars

Saves == 1..Len(log)

\* a stored paper holds, in some identifier field, the non-null value of the record
SharesId(row, paper_data) ==
    \E n \in 1..Len(IdFields) :
        paper_data[IdFields[n]] # None /\ row[IdFields[n]] = paper_data[IdFields[n]]

\* C22: a save that does not fail is a find-or-create keyed by the identifier
\* fields: a record with a non-null identifier equal to that of a stored paper
\* gets such a stored paper back and nothing is created; a record whose
\* non-null identifiers equal those of no stored paper creates exactly one
\* paper, which is returned; saving the same record again changes nothing.
C22_FindOrCreate ==
    \A n \in Saves :
        log[n].fault = "" =>
            /\ (\E k \in 1..Len(log[n].db_before) :
                    SharesId(log[n].db_before[k], log[n].paper_data))
                  => /\ log[n].db_after = log[n].db_before
                     /\ log[n].returned # << >>
                     /\ SharesId(log[n].returned[1], log[n].paper_data)
            /\ (\A k \in 1..Len(log[n].db_before) :
                    ~SharesId(log[n].db_before[k], log[n].paper_data))
                  => /\ Len(log[n].db_after) = Len(log[n].db_before) + 1
                     /\ log[n].returned = <<log[n].db_after[Len(log[n].db_after)]>>
            /\ (n > 1 /\ log[n - 1].fault = "" /\ log[n - 1].paper_data = log[n].paper_data)
                  => log[n].db_after = log[n].db_before

\* the rows a call of _save_paper_to_db inserted
Created(n) ==
    {log[n].db_after[k] : k \in (Len(log[n].db_before) + 1)..Len(log[n].db_after)}

\* C23: a failure while saving one paper is recovered locally: the call returns
\* no paper and the table is as before it, save_papers_to_db goes on with the
\* rest of the batch, and the list it returns holds exactly the papers the
\* calls found or inserted.
C23_FailureRecoveredLocally ==
    /\ \A n \in Saves :
          log[n].fault # "" => (log[n].returned = << >> /\ log[n].db_after = log[n].db_before)
    /\ save_pc = "returned" =>
          /\ Len(log) = Len(papers)
          /\ Range(saved) =
                UNION {Created(n) \cup Range(log[n].returned) : n \in Saves}

(***************************************************************************)
(* Termination of search.  The event loop resumes search once gather has   *)
(* every result, and the timer of wait_for fires while an adapter call is  *)
(* pending: both steps are weakly fair.  Nothing makes an adapter respond, *)
(* and nothing makes a caller call.                                        *)
(***************************************************************************)
\* number of calls of search in a run of LiveSpec
MaxLiveCalls == 1

\* the calls of search that miss the cache and reach the fan-out
LiveNext ==
    /\ Len(log) < MaxLiveCalls
    /\ (SearchFanOut \/ AdapterReturns \/ GatherCompletes \/ GatherTimeout)

LiveSpec ==
    Init /\ [][LiveNext]_vars /\ WF_vars(GatherCompletes) /\ WF_vars(GatherTimeout)

\* C24: every call of search that reaches the fan-out eventually returns a
\* response, whether or not its adapter calls respond.
C24_EventuallyResponds ==
    \A n \in 0..(MaxLiveCalls - 1) :
        (svc_pc = "gather" /\ Len(log) = n)
            ~> (Len(log) > n /\ log[n + 1].outcome = "response")

(***************************************************************************)
(* Further properties of deduplicate_papers, checked under DedupSpec.      *)
(***************************************************************************)
\* source s has the strictly higher priority: semantic_scholar over arxiv over
\* openalex over every other source
Outranks(s, t) ==
    \/ s = "semantic_scholar" /\ t # "semantic_scholar"
    \/ s = "arxiv" /\ t \notin {"semantic_scholar", "arxiv"}
    \/ s = "openalex" /\ t \notin KnownSources

\* the first of the inputs merged into slot n that no other of them outranks
Leader(n) ==
    CHOOSE k \in contrib[n] :
        /\ \A j \in contrib[n] : ~Outranks(papers[j].source, papers[k].source)
        /\ \A j \in contrib[n] :
              j < k => \E i \in contrib[n] : Outranks(papers[i].source, papers[j].source)

\* C25: in every merge the primary record is the one whose source has the
\* higher priority, the existing record on a tie, and the merged record has the
\* primary's source, title and authors; so every output record has the source,
\* title and authors of the first highest-priority record merged into it.
C25_PrimaryByPriority ==
    /\ Merged =>
          /\ last.merged[1].source = MergePrimary.source
          /\ last.merged[1].title = MergePrimary.title
          /\ last.merged[1].authors = MergePrimary.authors
    /\ Returned =>
          \A n \in Slots :
              /\ \A k \in contrib[n] : ~Outranks(papers[k].source, deduplicated[n].source)
              /\ deduplicated[n].source = papers[Leader(n)].source
              /\ deduplicated[n].title = papers[Leader(n)].title
              /\ deduplicated[n].authors = papers[Leader(n)].authors

\* C25's case: an openalex, a semantic_scholar and an arxiv record, in this
\* order, merged into one record: the second took over from the first and
\* held against the third
C25_Witness ==
    /\ Returned
    /\ Len(papers) = 3
    /\ Len(deduplicated) = 1
    /\ contrib[1] = {1, 2, 3}
    /\ papers[1].source = "openalex"
    /\ papers[2].source = "semantic_scholar"
    /\ papers[3].source = "arxiv"
    /\ deduplicated[1].source = "semantic_scholar"

\* the record indexed under the identifier in field f of the next input record:
\* << >> when the field is empty or its key is not in seen_ids
Hit(f) ==
    IF Truthy(papers[pos + 1][f]) /\ NormKeyOf[papers[pos + 1][f]] \in DOMAIN seen_ids
    THEN <<seen_ids[NormKeyOf[papers[pos + 1][f]]]>>
    ELSE << >>

\* the DOI of the next input record is indexed to one record and its arXiv ID
\* to a different one
DoiAndArxivHitApart ==
    /\ dedup_pc = "loop"
    /\ pos < Len(papers)
    /\ Hit("doi") # << >>
    /\ Hit("arxiv_id") # << >>
    /\ Hit("doi") # Hit("arxiv_id")

\* the iteration merged the incoming record into the record its DOI is indexed
\* to, and changed no other slot of the output
MergedIntoDoiHitOnly ==
    /\ last'.op = "merge"
    /\ last'.existing = Hit("doi")
    /\ Len(deduplicated') = Len(deduplicated)
    /\ deduplicated[last'.slot] = Hit("doi")[1]
    /\ \A n \in Slots : n # last'.slot => deduplicated'[n] = deduplicated[n]

\* C26: exact-key lookup tries DOI, arXiv ID, Semantic Scholar ID, OpenAlex ID,
\* and the first hit wins: when the DOI matches a record X and the arXiv ID a
\* different record Y, the incoming record is merged into X only and Y stays
\* in the output unchanged.
C26_FirstHitWins ==
    [][(DoiAndArxivHitApart /\ pos' # pos) => MergedIntoDoiHitOnly]_vars

\* the first identifier hit of the next input record, in the order DOI, arXiv
\* ID, Semantic Scholar ID, OpenAlex ID; << >> when no identifier hits
FirstIdHit ==
    IF Hit("doi") # << >> THEN Hit("doi")
    ELSE IF Hit("arxiv_id") # << >> THEN Hit("arxiv_id")
    ELSE IF Hit("semantic_scholar_id") # << >> THEN Hit("semantic_scholar_id")
    ELSE Hit("openalex_id")

\* the n-th title of the title index is similar enough to the next input
\* record's title
SimilarTitle(n) ==
    SimilarityOf[<<NormKeyOf[papers[pos + 1].title], seen_titles[n].key>>].num * 100
        >= SimilarityThresholdPct
              * SimilarityOf[<<NormKeyOf[papers[pos + 1].title], seen_titles[n].key>>].den

SimilarTitles ==
    IF NormKeyOf[papers[pos + 1].title] = << >> THEN {}
    ELSE {n \in 1..Len(seen_titles) : SimilarTitle(n)}

\* what the iteration does with the next input record, by identifiers first
\* and titles second
MatchedByIdThenTitle ==
    IF FirstIdHit # << >>
    THEN last'.op # "new" /\ last'.existing = FirstIdHit
    ELSE IF SimilarTitles # {}
    THEN /\ last'.op = "merge"
         /\ \E n \in SimilarTitles :
               /\ \A m \in SimilarTitles : n <= m
               /\ last'.existing = <<seen_titles[n].val>>
    ELSE /\ last'.op = "new"
         /\ deduplicated' = Append(deduplicated, papers[pos + 1])

\* C27: title similarity is consulted only when no identifier of the incoming
\* record matches and its normalized title is non-empty; the record is then
\* merged into the record indexed under the first title, in insertion order,
\* whose similarity reaches the threshold, and is appended as new when no
\* indexed title reaches it.
C27_TitleAfterIds ==
    [][(dedup_pc = "loop" /\ pos' # pos) => MatchedByIdThenTitle]_vars

\* record p holds in field f an identifier that record q holds in some field
\* (lower-cased and trimmed, as seen_ids is keyed)
CarriesIdOf(p, f, q) ==
    /\ Truthy(p[f])
    /\ \E n \in 1..Len(IdFields) :
          Truthy(q[IdFields[n]]) /\ NormKeyOf[q[IdFields[n]]] = NormKeyOf[p[f]]

\* the next input record has an identifier, and every identifier it has is one
\* of the record the last iteration produced by a merge
NextCarriesMergedIds ==
    /\ Merged
    /\ dedup_pc = "loop"
    /\ pos < Len(papers)
    /\ \E n \in 1..Len(IdFields) : Truthy(papers[pos + 1][IdFields[n]])
    /\ \A n \in 1..Len(IdFields) :
          Truthy(papers[pos + 1][IdFields[n]])
              => CarriesIdOf(papers[pos + 1], IdFields[n], last.merged[1])

\* the identifiers and the title of the record the last merge produced are
\* indexed to that record
MergedIsIndexed ==
    /\ \A n \in 1..Len(IdFields) :
          Truthy(last.merged[1][IdFields[n]])
              => /\ NormKeyOf[last.merged[1][IdFields[n]]] \in DOMAIN seen_ids
                 /\ seen_ids[NormKeyOf[last.merged[1][IdFields[n]]]] = last.merged[1]
    /\ NormKeyOf[last.merged[1].title] # << >>
          => \E k \in 1..Len(seen_titles) :
                /\ seen_titles[k].key = NormKeyOf[last.merged[1].title]
                /\ seen_titles[k].val = last.merged[1]

\* C28: after a merge every identifier of the merged record, adopted ones
\* included, and its normalized title are indexed to the merged record, and a
\* later input record carrying these identifiers is matched to and merged into
\* that merged record, in its slot.
C28_ReindexedAfterMerge ==
    /\ [](Merged => MergedIsIndexed)
    /\ [][(NextCarriesMergedIds /\ pos' # pos)
              => /\ last'.op = "merge"
                 /\ last'.existing = last.merged
                 /\ last'.slot = last.slot]_vars

\* a record with no identifier and an empty (or missing) title
Blank(p) ==
    /\ \A n \in 1..Len(IdFields) : ~Truthy(p[IdFields[n]])
    /\ NormKeyOf[p.title] = << >>

\* C29: a record with an empty or missing title and no identifier is never
\* merged with anything: its iteration appends it as a new record and indexes
\* nothing, no other record is ever merged into its slot, and every such input
\* record has a slot of its own in the output.
C29_BlankNeverMerged ==
    /\ [][(dedup_pc = "loop" /\ pos' # pos /\ Blank(papers[pos + 1]))
              => /\ last'.op = "new"
                 /\ deduplicated' = Append(deduplicated, papers[pos + 1])
                 /\ seen_ids' = seen_ids
                 /\ seen_titles' = seen_titles]_vars
    /\ [](\A k \in 1..pos :
              Blank(papers[k])
                  => \E n \in Slots : contrib[n] = {k} /\ deduplicated[n] = papers[k])
    /\ [](\A n \in Slots :
              (\E k \in contrib[n] : Blank(papers[k])) => Cardinality(contrib[n]) = 1)

\* C29's case: the same record without title and identifier twice, around a
\* record with a title; the output has three records
C29_Witness ==
    /\ Returned
    /\ Len(papers) = 3
    /\ Blank(papers[1])
    /\ papers[3] = papers[1]
    /\ ~Blank(papers[2])
    /\ Len(deduplicated) = 3
    /\ deduplicated[3] = papers[3]

\* the fields of which _merge_papers only fills gaps
GapFields == <<"arxiv_id", "doi", "semantic_scholar_id", "openalex_id", "pdf_url", "venue">>

\* C30 as the specification has it: in each of arxiv_id, doi,
\* semantic_scholar_id, openalex_id, pdf_url and venue the merged record holds
\* the primary's value when that is non-null, the secondary's when the
\* primary's is null and the secondary's is not, and null only when both are
\* null.
C30_NullGapsFilled ==
    Merged =>
        \A n \in 1..Len(GapFields) :
            /\ MergePrimary[GapFields[n]] # None
                  => last.merged[1][GapFields[n]] = MergePrimary[GapFields[n]]
            /\ (MergePrimary[GapFields[n]] = None /\ MergeSecondary[GapFields[n]] # None)
                  => last.merged[1][GapFields[n]] = MergeSecondary[GapFields[n]]
            /\ last.merged[1][GapFields[n]] = None
                  => (MergePrimary[GapFields[n]] = None /\ MergeSecondary[GapFields[n]] = None)

\* C30, amended: in each of arxiv_id, doi, semantic_scholar_id, openalex_id,
\* pdf_url and venue the merged record holds the primary's value when that is
\* a non-empty string, the secondary's value when the primary's is null or
\* empty and the secondary's is a non-empty string, and the primary's null or
\* empty value when neither record has a non-empty one.
C30_GapsFilled ==
    Merged =>
        \A n \in 1..Len(GapFields) :
            /\ Truthy(MergePrimary[GapFields[n]])
                  => last.merged[1][GapFields[n]] = MergePrimary[GapFields[n]]
            /\ (~Truthy(MergePrimary[GapFields[n]]) /\ Truthy(MergeSecondary[GapFields[n]]))
                  => last.merged[1][GapFields[n]] = MergeSecondary[GapFields[n]]
            /\ (~Truthy(MergePrimary[GapFields[n]]) /\ ~Truthy(MergeSecondary[GapFields[n]]))
                  => last.merged[1][GapFields[n]] = MergePrimary[GapFields[n]]

\* C30's case: the incoming record is primary, has a venue and no pdf_url; the
\* existing record has another venue and a pdf_url
C30_Witness ==
    /\ Merged
    /\ IncomingIsPrimary
    /\ last.incoming[1].pdf_url = None
    /\ Truthy(last.existing[1].pdf_url)
    /\ last.merged[1].pdf_url = last.existing[1].pdf_url
    /\ Truthy(last.incoming[1].venue)
    /\ Truthy(last.existing[1].venue)
    /\ last.existing[1].venue # last.incoming[1].venue
    /\ last.merged[1].venue = last.incoming[1].venue

\* the records the identifier index and the title index refer to
Indexed ==
    {seen_ids[k] : k \in DOMAIN seen_ids} \cup {seen_titles[n].val : n \in 1..Len(seen_titles)}

\* C31: at every step of deduplicate_papers every record the identifier index
\* or the title index refers to is an element of the current output list, and
\* deduplicate_papers does not raise.
C31_IndexedAreInOutput ==
    /\ Indexed \subseteq Range(deduplicated)
    /\ raised = ""


\* the field of the next input record whose identifier hits first, in the
\* order the lookups are made
FirstHitField ==
    IF Hit("doi") # << >> THEN "doi"
    ELSE IF Hit("arxiv_id") # << >> THEN "arxiv_id"
    ELSE IF Hit("semantic_scholar_id") # << >> THEN "semantic_scholar_id"
    ELSE "openalex_id"

\* the next input record is about to be matched by an identifier
MatchesById ==
    /\ dedup_pc = "loop"
    /\ pos < Len(papers)
    /\ FirstIdHit # << >>

\* C32: exact-key matching is per identifier field: a record is matched by
\* identifier to an indexed record only if the two hold the same normalized
\* value in the same field; a value in one field never matches an equal string
\* another record holds in a different field.
C32_SameFieldOnly ==
    MatchesById => SameId(papers[pos + 1], FirstIdHit[1], FirstHitField)


\* the sources a call of search asks for: every adapter when sources is absent
\* or empty
Requested(n) ==
    IF log[n].args.sources = << >> THEN Range(AllSources) ELSE Range(log[n].args.sources)

\* the sources the records of a response were taken from
PaperSources(response) ==
    {response.papers[i].source : i \in 1..Len(response.papers)}
        \cup UNION {Range(response.papers[i].sources) : i \in 1..Len(response.papers)}

\* C33: the response of a call search(query, limit, sources, use_cache=true),
\* computed or served from the cache, names in sources_used only sources the
\* call asked for (all three when sources is absent or empty) and holds
\* records of those sources only.
C33_OnlyRequestedSources ==
    \A n \in Responded :
        log[n].args.use_cache
            => /\ Range(log[n].response[1].sources_used) \subseteq Requested(n)
               /\ PaperSources(log[n].response[1]) \subseteq Requested(n)


\* search is in a call with use_cache=false, awaiting the fan-out
NoCacheCallInProgress == svc_pc = "gather" /\ ~call.args.use_cache

\* a step of a call with use_cache=false: its start, an adapter returning, or
\* its end
NoCacheCallStep ==
    \/ NoCacheCallInProgress
    \/ svc_pc' = "gather" /\ ~call'.args.use_cache
    \/ Len(log') > Len(log) /\ ~log'[Len(log')].args.use_cache

\* the calls made with use_cache=false
NoCacheCalls == {n \in Calls : ~log[n].args.use_cache}

\* call n queried every adapter the call selects
AdaptersQueried(n) ==
    /\ log[n].fanout
    /\ log[n].invoked = Invoked(log[n].args, _get_active_sources(log[n].args.sources))
    /\ log[n].invoked # << >>

\* C34: a call of search with use_cache=false neither reads nor writes the
\* cache: no step of the call changes the cache contents, the call queries the
\* adapters whatever the cache holds (it ends without querying one only when
\* its sources name no adapter, with ZeroDivisionError), and the response it
\* returns has cached = false.
C34_NoCacheCallLeavesCache ==
    /\ [][NoCacheCallStep => store' = store]_vars
    /\ [](\A n \in NoCacheCalls :
             /\ AdaptersQueried(n) \/ _get_active_sources(log[n].args.sources) = << >>
             /\ log[n].outcome = "response"
                   => AdaptersQueried(n) /\ ~log[n].response[1].cached)

\* C34's case: a response with records is cached for (query, limit), then a
\* call with use_cache=false for the same query and limit queries the
\* adapters, returns a different response with cached = false, and the cache
\* still holds the first response
C34_Witness ==
    /\ Len(log) = 2
    /\ 1 \in Computed
    /\ log[1].args.use_cache
    /\ log[1].response[1].papers # << >>
    /\ ~log[2].args.use_cache
    /\ ~log[2].evicted_before
    /\ KeyOf(2) = KeyOf(1)
    /\ 2 \in Computed
    /\ AdaptersQueried(2)
    /\ ~log[2].response[1].cached
    /\ log[2].response[1].papers # log[1].response[1].papers
    /\ KeyOf(2) \in DOMAIN store
    /\ JsonLoads(store[KeyOf(2)]) = log[1].response[1]

=============================================================================
